---------------------------- MODULE Spec2Model ----------------------------
(***************************************************************************)
(* A model of the Ethereum JSON-RPC client of src/main.rs: the ABI codec   *)
(* (encode_function_call, decode_uint, decode_address, decode_string), the *)
(* JSON-RPC transport (query) and the sequence of calls made by main.      *)
(*                                                                         *)
(* A Rust String / &str is a sequence of its UTF-8 bytes (0..255).  A u64  *)
(* or usize is a natural number kept as its base-16 digits, least          *)
(* significant first, without high zero digits (<<>> is 0), so that the    *)
(* 64-bit width of the program's integers is kept exactly.  A function     *)
(* that can panic returns [panic |-> BOOLEAN, val |-> its value].          *)
(***************************************************************************)
EXTENDS Integers, Sequences, FiniteSets, TLC

VARIABLES
    pc,                 \* position of the caller (harness or main)
    overflow_checks,    \* build profile: TRUE = debug (arithmetic overflow panics)
    scenario,           \* what the caller is doing: the call of main, or the harness case
    method_signature,   \* encode_function_call's first argument
    params,             \* encode_function_call's second argument
    data,               \* the payload: [panic, val] returned by encode_function_call
    response,           \* outcome of query: [kind, status, result]
    hex_str,            \* the argument handed to a decoder
    decoded             \* what the decoder returned: [fn, panic, val]

vars == <<pc, overflow_checks, scenario, method_signature, params, data,
          response, hex_str, decoded>>

-----------------------------------------------------------------------------
(* Characters and strings *)

Printable ==
    <<" ", "!", "dquote", "#", "$", "%", "&", "'", "(", ")", "*", "+", ",", "-", ".", "/",
      "0", "1", "2", "3", "4", "5", "6", "7", "8", "9", ":", ";", "<", "=", ">", "?",
      "@", "A", "B", "C", "D", "E", "F", "G", "H", "I", "J", "K", "L", "M", "N", "O",
      "P", "Q", "R", "S", "T", "U", "V", "W", "X", "Y", "Z", "[", "backslash", "]", "^", "_",
      "backtick", "a", "b", "c", "d", "e", "f", "g", "h", "i", "j", "k", "l", "m", "n", "o",
      "p", "q", "r", "s", "t", "u", "v", "w", "x", "y", "z", "{", "|", "}", "~">>

\* The ASCII code of a one-character string.
Code(c) == 31 + (CHOOSE i \in 1..Len(Printable) : Printable[i] = c)

\* The bytes of an ASCII string given by its characters.
Str(cs) == [i \in 1..Len(cs) |-> Code(cs[i])]

\* n copies of the byte sequence unit.
Repeat(unit, n) ==
    [i \in 1..(n * Len(unit)) |-> unit[((i - 1) % Len(unit)) + 1]]

Ok(v) == [panic |-> FALSE, val |-> v]
Panic == [panic |-> TRUE, val |-> <<>>]

\* str::is_char_boundary: 0, len, or a byte that is not a UTF-8 continuation byte.
is_char_boundary(s, i) ==
    \/ i = 0
    \/ i = Len(s)
    \/ i < Len(s) /\ ~(s[i + 1] \in 128..191)

\* &s[a..b]: panics when a > b, b > len or an end is not a char boundary.
Slice(s, a, b) ==
    IF a <= b /\ b <= Len(s) /\ is_char_boundary(s, a) /\ is_char_boundary(s, b)
    THEN Ok(SubSeq(s, a + 1, b))
    ELSE Panic

starts_with(s, pat) ==
    Len(s) >= Len(pat) /\ SubSeq(s, 1, Len(pat)) = pat

\* str::contains(pat)
contains(s, pat) ==
    \E i \in 0..(Len(s) - Len(pat)) : SubSeq(s, i + 1, i + Len(pat)) = pat

RECURSIVE trim_start_matches(_, _)
\* str::trim_start_matches(pat): removes every repetition of pat at the start.
trim_start_matches(s, pat) ==
    IF starts_with(s, pat)
    THEN trim_start_matches(SubSeq(s, Len(pat) + 1, Len(s)), pat)
    ELSE s

\* Number of chars (Unicode scalar values) of a UTF-8 string.
chars_count(s) == Cardinality({i \in 1..Len(s) : ~(s[i] \in 128..191)})

\* format!("{:0>64}", s): s right-aligned in `width` chars, filled with '0';
\* a longer s is written whole.
pad_left_zero(s, width) ==
    IF chars_count(s) >= width THEN s
    ELSE Repeat(Str(<<"0">>), width - chars_count(s)) \o s

-----------------------------------------------------------------------------
(* Numbers *)

Reverse(s) == [i \in 1..Len(s) |-> s[Len(s) + 1 - i]]

\* A digit sequence (least significant first) without its high zero digits.
Canon(le) ==
    LET nz == {i \in 1..Len(le) : le[i] # 0}
    IN  IF nz = {} THEN <<>>
        ELSE SubSeq(le, 1, CHOOSE i \in nz : \A j \in nz : j <= i)

\* Number of hex digits of a u64 / usize (64-bit target).
U64_DIGITS == 16

RECURSIVE AddDigits(_, _, _)
\* The sum of two digit sequences and a carry, unbounded.
AddDigits(a, b, c) ==
    IF a = <<>> /\ b = <<>>
    THEN IF c = 0 THEN <<>> ELSE <<c>>
    ELSE LET x == (IF a = <<>> THEN 0 ELSE Head(a))
                  + (IF b = <<>> THEN 0 ELSE Head(b)) + c
         IN  <<x % 16>> \o AddDigits(IF a = <<>> THEN <<>> ELSE Tail(a),
                                     IF b = <<>> THEN <<>> ELSE Tail(b),
                                     x \div 16)

\* usize addition: on overflow a debug build panics, a release build wraps.
usize_add(a, b) ==
    LET s == AddDigits(a, b, 0)
    IN  IF Len(s) > U64_DIGITS
        THEN IF overflow_checks THEN Panic
             ELSE Ok(Canon(SubSeq(s, 1, U64_DIGITS)))
        ELSE Ok(s)

\* usize multiplication by 2 (offset*2, length*2).
usize_mul2(a) == usize_add(a, a)

\* The digits of a small natural number.
RECURSIVE Digits(_)
Digits(n) == IF n = 0 THEN <<>> ELSE <<n % 16>> \o Digits(n \div 16)

\* The natural number of a digit sequence of at most 7 digits.
RECURSIVE ToInt(_)
ToInt(v) == IF v = <<>> THEN 0 ELSE Head(v) + 16 * ToInt(Tail(v))

\* &s[a..b] with usize bounds. A bound of 8 digits or more (2^28 and up) is
\* past the end of every string held here, so that the slice panics.
SliceAt(s, a, b) ==
    IF Len(a) <= 7 /\ Len(b) <= 7 THEN Slice(s, ToInt(a), ToInt(b)) ELSE Panic

\* char::to_digit(16), -1 for None.
to_digit(c) ==
    IF c \in 48..57 THEN c - 48
    ELSE IF c \in 97..102 THEN c - 87
    ELSE IF c \in 65..70 THEN c - 55
    ELSE -1

\* u64::from_str_radix(src, 16) and usize::from_str_radix(src, 16): a leading
\* '+' is accepted; Err on empty input, an invalid digit, or overflow.
from_str_radix(src) ==
    LET digits == IF src # <<>> /\ src[1] = Code("+") THEN Tail(src) ELSE src
        vals   == [i \in 1..Len(digits) |-> to_digit(digits[i])]
    IN  IF digits = <<>> \/ \E i \in 1..Len(vals) : vals[i] = -1
        THEN [ok |-> FALSE, val |-> <<>>]
        ELSE LET v == Canon(Reverse(vals))
             IN  IF Len(v) > U64_DIGITS
                 THEN [ok |-> FALSE, val |-> <<>>]
                 ELSE [ok |-> TRUE, val |-> v]

\* Result::unwrap_or(0)
unwrap_or_0(r) == IF r.ok THEN r.val ELSE <<>>

HexChars == Str(<<"0", "1", "2", "3", "4", "5", "6", "7", "8", "9",
                  "a", "b", "c", "d", "e", "f">>)

\* format!("{:x}", n)
LowerHex(n) ==
    IF n = 0 THEN Str(<<"0">>)
    ELSE LET d == Reverse(Digits(n)) IN [i \in 1..Len(d) |-> HexChars[d[i] + 1]]

\* u64::to_string(): the decimal digits of a digit sequence, by repeated
\* division by ten.
RECURSIVE DivTen(_, _)
\* Quotient digits (most significant first) and remainder of be / 10.
DivTen(be, r) ==
    IF be = <<>> THEN [q |-> <<>>, r |-> r]
    ELSE LET cur  == r * 16 + Head(be)
             rest == DivTen(Tail(be), cur % 10)
         IN  [q |-> <<cur \div 10>> \o rest.q, r |-> rest.r]

RECURSIVE DecimalOf(_)
DecimalOf(v) ==
    IF v = <<>> THEN <<>>
    ELSE LET d == DivTen(Reverse(v), 0)
         IN  DecimalOf(Canon(Reverse(d.q))) \o <<48 + d.r>>

to_string(v) == IF v = <<>> THEN Str(<<"0">>) ELSE DecimalOf(v)

\* hex::encode
hex_encode(bytes) ==
    [i \in 1..(2 * Len(bytes)) |->
        LET b == bytes[(i + 1) \div 2]
        IN  HexChars[(IF i % 2 = 1 THEN b \div 16 ELSE b % 16) + 1]]

\* hex::decode: Err on an odd length or a character that is no hex digit.
hex_decode(s) ==
    IF Len(s) % 2 = 1 \/ \E i \in 1..Len(s) : to_digit(s[i]) = -1
    THEN [ok |-> FALSE, val |-> <<>>]
    ELSE [ok |-> TRUE,
          val |-> [i \in 1..(Len(s) \div 2) |->
                      16 * to_digit(s[2 * i - 1]) + to_digit(s[2 * i])]]

RECURSIVE utf8_from(_, _)
\* Whether bytes[i..] is well-formed UTF-8 (String::from_utf8 succeeds).
utf8_from(b, i) ==
    LET n     == Len(b)
        c(k)  == k <= n /\ b[k] \in 128..191
        in(k, lo, hi) == k <= n /\ b[k] \in lo..hi
    IN  IF i > n THEN TRUE
        ELSE IF b[i] \in 0..127 THEN utf8_from(b, i + 1)
        ELSE IF b[i] \in 194..223 THEN c(i + 1) /\ utf8_from(b, i + 2)
        ELSE IF b[i] = 224 THEN in(i + 1, 160, 191) /\ c(i + 2) /\ utf8_from(b, i + 3)
        ELSE IF b[i] \in (225..236) \cup (238..239)
             THEN c(i + 1) /\ c(i + 2) /\ utf8_from(b, i + 3)
        ELSE IF b[i] = 237 THEN in(i + 1, 128, 159) /\ c(i + 2) /\ utf8_from(b, i + 3)
        ELSE IF b[i] = 240
             THEN in(i + 1, 144, 191) /\ c(i + 2) /\ c(i + 3) /\ utf8_from(b, i + 4)
        ELSE IF b[i] \in 241..243
             THEN c(i + 1) /\ c(i + 2) /\ c(i + 3) /\ utf8_from(b, i + 4)
        ELSE IF b[i] = 244
             THEN in(i + 1, 128, 143) /\ c(i + 2) /\ c(i + 3) /\ utf8_from(b, i + 4)
        ELSE FALSE

InvalidData == Str(<<"I", "n", "v", "a", "l", "i", "d", " ", "d", "a", "t", "a">>)
InvalidUtf8 == Str(<<"I", "n", "v", "a", "l", "i", "d", " ", "U", "T", "F", "-", "8">>)
Prefix0x    == Str(<<"0", "x">>)

\* String::from_utf8(bytes).unwrap_or_else(|_| "Invalid UTF-8")
from_utf8_or_sentinel(bytes) == IF utf8_from(bytes, 1) THEN bytes ELSE InvalidUtf8

-----------------------------------------------------------------------------
(* The decoders *)

\* fn decode_uint(hex_str: &str) -> u64
decode_uint(h) ==
    unwrap_or_0(from_str_radix(trim_start_matches(h, Prefix0x)))

\* decode_address without the trim of the "0x" prefix.
decode_address_untrimmed(h) ==
    LET s == Slice(h, 24, 64)
    IN  IF s.panic THEN Panic ELSE Ok(Prefix0x \o s.val)

\* fn decode_address(hex_str: &str) -> String
decode_address(h) ==
    LET s == Slice(trim_start_matches(h, Prefix0x), 24, 64)
    IN  IF s.panic THEN Panic ELSE Ok(Prefix0x \o s.val)

\* fn decode_string(hex_str: &str) -> String
decode_string(h) ==
    IF Len(h) < 130 THEN Ok(InvalidData)
    ELSE
    LET s    == trim_start_matches(h, Prefix0x)
        head == Slice(s, 0, 64)
    IN  IF head.panic THEN Panic ELSE
    LET offset == unwrap_or_0(from_str_radix(head.val))
        lo     == usize_mul2(offset)                          \* offset*2
    IN  IF lo.panic THEN Panic ELSE
    LET mid == usize_add(lo.val, Digits(64))                 \* offset*2+64
    IN  IF mid.panic THEN Panic ELSE
    LET length_hex == SliceAt(s, lo.val, mid.val)
    IN  IF length_hex.panic THEN Panic ELSE
    LET length == unwrap_or_0(from_str_radix(length_hex.val))
        twice  == usize_mul2(length)                          \* length*2
    IN  IF twice.panic THEN Panic ELSE
    LET hi == usize_add(mid.val, twice.val)                  \* offset*2+64+length*2
    IN  IF hi.panic THEN Panic ELSE
    LET string_data == SliceAt(s, mid.val, hi.val)
    IN  IF string_data.panic THEN Panic ELSE
        Ok(from_utf8_or_sentinel(unwrap_or_0(hex_decode(string_data.val))))

-----------------------------------------------------------------------------
(* Signatures: the ones main passes, and transfer(address,uint256) as a    *)
(* static signature of two arguments.                                      *)
SigName ==
    Str(<<"n", "a", "m", "e", "(", ")">>)
SigSymbol ==
    Str(<<"s", "y", "m", "b", "o", "l", "(", ")">>)
SigDecimals ==
    Str(<<"d", "e", "c", "i", "m", "a", "l", "s", "(", ")">>)
SigTotalSupply ==
    Str(<<"t", "o", "t", "a", "l", "S", "u", "p", "p", "l", "y", "(", ")">>)
SigBalanceOf ==
    Str(<<"b", "a", "l", "a", "n", "c", "e", "O", "f", "(", "a", "d", "d", "r",
          "e", "s", "s", ")">>)
SigOwnerOf ==
    Str(<<"o", "w", "n", "e", "r", "O", "f", "(", "u", "i", "n", "t", "2", "5",
          "6", ")">>)
SigTokenURI ==
    Str(<<"t", "o", "k", "e", "n", "U", "R", "I", "(", "u", "i", "n", "t", "2",
          "5", "6", ")">>)
SigGetStudentCount ==
    Str(<<"g", "e", "t", "S", "t", "u", "d", "e", "n", "t", "C", "o", "u", "n",
          "t", "(", "s", "t", "r", "i", "n", "g", ")">>)
SigGetStudentsBySubject ==
    Str(<<"g", "e", "t", "S", "t", "u", "d", "e", "n", "t", "s", "B", "y", "S",
          "u", "b", "j", "e", "c", "t", "(", "s", "t", "r", "i", "n", "g", ",",
          "u", "i", "n", "t", "2", "5", "6", ",", "u", "i", "n", "t", "2", "5",
          "6", ")">>)
SigTransfer ==
    Str(<<"t", "r", "a", "n", "s", "f", "e", "r", "(", "a", "d", "d", "r", "e",
          "s", "s", ",", "u", "i", "n", "t", "2", "5", "6", ")">>)

\* keccak_hash::keccak: the Keccak-256 digests (32 bytes) of the signatures above.
keccak(bytes) ==
    CASE bytes = SigName ->
           <<6, 253, 222, 3, 131, 241, 93, 88, 45, 26, 116, 81, 20, 134, 201, 221,
             248, 98, 168, 130, 251, 121, 4, 179, 217, 254, 155, 139, 142, 88, 167, 150>>
      [] bytes = SigSymbol ->
           <<149, 216, 155, 65, 226, 245, 243, 145, 167, 158, 197, 78, 157, 135, 199, 157,
             110, 119, 124, 99, 227, 44, 40, 218, 149, 180, 233, 228, 167, 146, 80, 236>>
      [] bytes = SigDecimals ->
           <<49, 60, 229, 103, 173, 212, 212, 56, 237, 245, 139, 148, 255, 52, 93, 125,
             56, 196, 91, 23, 223, 192, 249, 71, 152, 141, 120, 25, 220, 163, 100, 249>>
      [] bytes = SigTotalSupply ->
           <<24, 22, 13, 221, 127, 21, 199, 37, 40, 194, 249, 79, 216, 223, 227, 200,
             213, 170, 38, 226, 197, 12, 125, 129, 244, 188, 123, 238, 141, 75, 121, 50>>
      [] bytes = SigBalanceOf ->
           <<112, 160, 130, 49, 185, 142, 244, 202, 38, 140, 156, 195, 246, 180, 89, 14,
             75, 254, 194, 130, 128, 219, 6, 187, 93, 69, 230, 137, 242, 163, 96, 190>>
      [] bytes = SigOwnerOf ->
           <<99, 82, 33, 30, 101, 102, 170, 2, 126, 117, 172, 157, 191, 36, 35, 25,
             127, 189, 155, 130, 185, 217, 129, 163, 171, 54, 125, 53, 88, 102, 170, 28>>
      [] bytes = SigTokenURI ->
           <<200, 123, 86, 221, 167, 82, 35, 2, 98, 147, 89, 64, 217, 7, 240, 71,
             169, 248, 107, 181, 238, 106, 163, 53, 17, 252, 134, 219, 51, 254, 166, 204>>
      [] bytes = SigGetStudentCount ->
           <<214, 149, 193, 112, 131, 126, 20, 107, 1, 78, 151, 29, 60, 50, 146, 36,
             176, 128, 50, 239, 125, 14, 61, 134, 186, 26, 27, 183, 249, 42, 99, 185>>
      [] bytes = SigGetStudentsBySubject ->
           <<17, 75, 90, 85, 3, 37, 175, 214, 37, 18, 31, 114, 69, 189, 139, 137,
             99, 62, 167, 71, 200, 208, 0, 148, 84, 26, 90, 100, 225, 26, 136, 3>>
      [] bytes = SigTransfer ->
           <<169, 5, 156, 187, 42, 176, 158, 178, 25, 88, 63, 74, 89, 165, 208, 98,
             58, 222, 52, 109, 150, 43, 205, 78, 70, 177, 29, 160, 71, 201, 4, 155>>

-----------------------------------------------------------------------------
(* The encoder *)

\* A padding that adds a whole word to a string already on a word boundary.
pad_right_zero_always(hex_string) ==
    hex_string \o Repeat(Str(<<"0">>), 64 - (Len(hex_string) % 64))

\* while hex_string.len() % 64 != 0 { hex_string.push('0') }
pad_right_zero(hex_string) ==
    hex_string \o Repeat(Str(<<"0">>), (64 - (Len(hex_string) % 64)) % 64)

\* A dynamic region whose length word counts chars, not UTF-8 bytes.
encode_tail_chars(subject) ==
    pad_left_zero(LowerHex(chars_count(subject)), 64)
        \o pad_right_zero(hex_encode(subject))

\* The dynamic region of a string: its byte length as one word, then its
\* bytes in hex padded to a word boundary.
encode_tail(subject) ==
    pad_left_zero(LowerHex(Len(subject)), 64) \o pad_right_zero(hex_encode(subject))

RECURSIVE encode_static_keep_prefix(_)
\* A loop that pads every param and never cuts a "0x".
encode_static_keep_prefix(ps) ==
    IF ps = <<>> THEN <<>>
    ELSE pad_left_zero(Head(ps), 64) \o encode_static_keep_prefix(Tail(ps))

RECURSIVE encode_static(_)
\* for param in params { ... }
encode_static(ps) ==
    IF ps = <<>> THEN <<>>
    ELSE (IF starts_with(Head(ps), Prefix0x)
          THEN SubSeq(Head(ps), 3, Len(Head(ps)))
          ELSE pad_left_zero(Head(ps), 64)) \o encode_static(Tail(ps))

\* The 8 hex characters of the selector.
selector(sig) == hex_encode(SubSeq(keccak(sig), 1, 4))

\* fn encode_function_call(method_signature: &str, params: Vec<String>) -> String
encode_function_call(sig, ps) ==
    IF contains(sig, Str(<<"s", "t", "r", "i", "n", "g">>))
    THEN IF contains(sig, Str(<<",", "u", "i", "n", "t", "2", "5", "6",
                                ",", "u", "i", "n", "t", "2", "5", "6">>))
         THEN IF Len(ps) < 3 THEN Panic
              ELSE Ok(Prefix0x \o selector(sig)
                      \o pad_left_zero(Str(<<"6", "0">>), 64)
                      \o pad_left_zero(ps[2], 64)
                      \o pad_left_zero(ps[3], 64)
                      \o encode_tail(ps[1]))
         ELSE IF Len(ps) < 1 THEN Panic
              ELSE Ok(Prefix0x \o selector(sig)
                      \o pad_left_zero(Str(<<"2", "0">>), 64)
                      \o encode_tail(ps[1]))
    ELSE Ok(Prefix0x \o selector(sig) \o encode_static(ps))

-----------------------------------------------------------------------------
(* Inputs of the codec harness *)

\* Longest subject string, in chars.
MaxSubjectChars == 70
\* Longest list of static arguments.
MaxParams == 2
\* Most characters after the first word of an address result.
MaxTail == 3

Mathematics ==
    Str(<<"M", "a", "t", "h", "e", "m", "a", "t", "i", "c", "s">>)

\* One-char units of the subjects: NUL, '0', 'M' and the two-byte U+00E9.
Units == {<<0>>, Str(<<"0">>), Str(<<"M">>), <<195, 169>>}

Subjects ==
    {Repeat(u, n) : u \in Units, n \in 0..MaxSubjectChars} \cup {Mathematics}

\* Subjects of the three-argument calls.
ShortSubjects ==
    {Repeat(u, n) : u \in Units, n \in {0, 1, 32, 33}} \cup {Mathematics}

\* u64 values: 0, 0x1, 0x11, .., 0xa, 0xaa, .., 0xf, 0xff, .., u64::MAX.
U64Samples == {Repeat(<<d>>, k) : d \in {1, 10, 15}, k \in 0..U64_DIGITS}

U64Max == Repeat(<<15>>, U64_DIGITS)

\* let token_id = format!("{:0>64}", "1");
token_id == pad_left_zero(Str(<<"1">>), 64)

CONTRACT_ADDRESS ==
    Str(<<"0", "x", "1", "c", "7", "D", "4", "B", "1", "9", "6", "C", "b", "0",
          "C", "7", "B", "0", "1", "d", "7", "4", "3", "F", "b", "c", "6", "1",
          "1", "6", "a", "9", "0", "2", "3", "7", "9", "C", "7", "2", "3", "8">>)

NFT_ADDRESS ==
    Str(<<"0", "x", "1", "2", "3", "8", "5", "3", "6", "0", "7", "1", "E", "1",
          "c", "6", "7", "7", "A", "6", "3", "2", "4", "2", "9", "e", "3", "6",
          "5", "5", "c", "7", "9", "9", "b", "2", "2", "c", "D", "A", "5", "2">>)

\* An argument of 65 characters.
LongArg == Repeat(Str(<<"1">>), 65)

StaticArgs ==
    { to_string(<<10>>), token_id,
      pad_left_zero(trim_start_matches(CONTRACT_ADDRESS, Prefix0x), 64),
      Prefix0x \o token_id, Prefix0x \o Str(<<"1">>), LongArg }

ScalarArgs == { to_string(<<>>), to_string(<<10>>), token_id, LongArg }

\* Signatures without "string" that are given the argument lists below.
StaticSignatures == { SigName, SigBalanceOf, SigOwnerOf, SigTransfer }

ParamLists == UNION {[1..k -> StaticArgs] : k \in 0..MaxParams}

\* The (signature, params) pairs handed to encode_function_call.
EncodeInputs ==
    {<<SigGetStudentCount, <<s>>>> : s \in Subjects}
    \cup {<<SigGetStudentCount, <<>>>>, <<SigGetStudentsBySubject, <<Mathematics>>>>}
    \cup {<<SigGetStudentsBySubject, <<s, o, l>>>> :
              s \in ShortSubjects, o \in ScalarArgs, l \in ScalarArgs}
    \cup {<<sig, ps>> : sig \in StaticSignatures, ps \in ParamLists}
    \cup {<<sig, <<>>>> : sig \in {SigSymbol, SigDecimals, SigTotalSupply}}
    \cup {<<SigTokenURI, <<token_id>>>>}
    \cup {<<SigOwnerOf, <<to_string(n)>>>> : n \in U64Samples}
    \cup {<<SigGetStudentsBySubject, <<Mathematics, to_string(<<>>), to_string(n)>>>> :
              n \in U64Samples}

Zeros(n) == Repeat(Str(<<"0">>), n)
Word(s) == Zeros(64 - Len(s)) \o s

\* uint256 return words, and strings that are no word.
UintBodies ==
    { Word(Repeat(Str(<<c>>), k)) : c \in {"1", "a", "F"}, k \in 0..20 }
    \cup { Word(Str(<<"1">>) \o Zeros(k)) : k \in {15, 16, 17, 63} }
    \cup { Repeat(Str(<<"f">>), 64), <<>>, Str(<<"z", "z">>), Str(<<"+", "1", "0">>),
           Str(<<"1", "0">>) }

\* Address return words followed by a tail.
AddressBodies ==
    { Repeat(Str(<<hi>>), 24) \o Repeat(Str(<<"1", lo>>), 20) \o Repeat(Str(<<t>>), k) :
          hi \in {"0", "f"}, lo \in {"c", "D"}, t \in {"0", "9"}, k \in 0..MaxTail }
    \cup { Zeros(k) : k \in {0, 24, 63} }

\* String results: the envelope of the empty string cut at several lengths,
\* envelopes whose offset or length word varies, and malformed content.
StringBodies ==
    { SubSeq(Word(Str(<<"2", "0">>)) \o Zeros(128), 1, k) :
          k \in {0, 64, 126, 127, 128, 129, 130, 192} }
    \cup { Word(off) \o Word(Str(<<"1">>)) \o hex_encode(Str(<<"M">>)) \o Zeros(62) :
          off \in { Str(<<"0">>), Str(<<"2", "0">>), Str(<<"4", "0">>), Str(<<"6", "0">>),
                    Str(<<"2", "1">>), Str(<<"z">>),
                    Str(<<"8">>) \o Zeros(13) \o Str(<<"2", "0">>),
                    Repeat(Str(<<"f">>), 16), Repeat(Str(<<"f">>), 64) } }
    \cup { Word(Str(<<"2", "0">>)) \o Word(len) \o hex_encode(Mathematics) \o Zeros(42) :
          len \in { Str(<<"0">>), Str(<<"b">>), Str(<<"2", "0">>), Str(<<"2", "1">>),
                    Str(<<"7">>) \o Repeat(Str(<<"f">>), 15),
                    Str(<<"8">>) \o Zeros(15), Repeat(Str(<<"f">>), 16) } }
    \cup { Word(Str(<<"2", "0">>)) \o Word(Str(<<"1">>)) \o c \o Zeros(62) :
          c \in { Str(<<"f", "f">>), Str(<<"z", "z">>), Str(<<"C", "3">>) } }
    \cup { Zeros(63) \o <<195, 169>> \o Zeros(65) }

RawPrefixes == { <<>>, Prefix0x, Prefix0x \o Prefix0x }

\* The raw results handed to the decoders.
RawResults ==
    { p \o b : p \in RawPrefixes, b \in UintBodies \cup AddressBodies \cup StringBodies }

NoValue  == [panic |-> FALSE, val |-> <<>>]
NoResponse == [kind |-> "none", status |-> 0, json |-> FALSE, has_result |-> FALSE,
               result |-> <<>>]
NotDecoded == [fn |-> "none", panic |-> FALSE, val |-> <<>>]

-----------------------------------------------------------------------------
(* The codec harness: one call of the encoder, whose payload (the whole    *)
(* argument block, or one word of it) may be handed to a decoder, or one   *)
(* call of a decoder on a raw result.                                      *)

Init ==
    /\ overflow_checks \in BOOLEAN
    /\ response = NoResponse
    /\ decoded = NotDecoded
    /\ data = NoValue
    /\ \/ /\ pc = "encode"
          /\ \E in \in EncodeInputs :
                /\ method_signature = in[1]
                /\ params = in[2]
          /\ scenario = [kind |-> "encode", word |-> -1]
          /\ hex_str = <<>>
       \/ /\ pc = "decode"
          /\ method_signature = <<>>
          /\ params = <<>>
          /\ scenario = [kind |-> "raw", word |-> -1]
          /\ hex_str \in RawResults

\* encode_function_call(method_signature, params)
EncodeFunctionCall ==
    /\ pc = "encode"
    /\ data' = encode_function_call(method_signature, params)
    /\ pc' = IF data'.panic THEN "panicked" ELSE "encoded"
    /\ UNCHANGED <<overflow_checks, scenario, method_signature, params, response,
                   hex_str, decoded>>

\* The payload without its selector: "0x" and the argument block.
DropSelector ==
    /\ pc = "encoded"
    /\ hex_str' = Prefix0x \o SubSeq(data.val, 11, Len(data.val))
    /\ scenario' = [scenario EXCEPT !.kind = "block"]
    /\ pc' = "decode"
    /\ UNCHANGED <<overflow_checks, method_signature, params, data, response, decoded>>

\* The k-th 64-character word of the argument block.
TakeWord(k) ==
    /\ pc = "encoded"
    /\ Len(data.val) >= 10 + 64 * (k + 1)
    /\ hex_str' = SubSeq(data.val, 11 + 64 * k, 10 + 64 * (k + 1))
    /\ scenario' = [kind |-> "word", word |-> k]
    /\ pc' = "decode"
    /\ UNCHANGED <<overflow_checks, method_signature, params, data, response, decoded>>

\* decode_uint(hex_str)
DecodeUint ==
    /\ pc = "decode"
    /\ decoded' = [fn |-> "decode_uint", panic |-> FALSE, val |-> decode_uint(hex_str)]
    /\ pc' = "done"
    /\ UNCHANGED <<overflow_checks, scenario, method_signature, params, data, response,
                   hex_str>>

\* decode_address(hex_str)
DecodeAddress ==
    /\ pc = "decode"
    /\ LET r == decode_address(hex_str)
       IN  /\ decoded' = [fn |-> "decode_address", panic |-> r.panic, val |-> r.val]
           /\ pc' = IF r.panic THEN "panicked" ELSE "done"
    /\ UNCHANGED <<overflow_checks, scenario, method_signature, params, data, response,
                   hex_str>>

\* decode_string(hex_str)
DecodeString ==
    /\ pc = "decode"
    /\ LET r == decode_string(hex_str)
       IN  /\ decoded' = [fn |-> "decode_string", panic |-> r.panic, val |-> r.val]
           /\ pc' = IF r.panic THEN "panicked" ELSE "done"
    /\ UNCHANGED <<overflow_checks, scenario, method_signature, params, data, response,
                   hex_str>>

Next ==
    \/ EncodeFunctionCall
    \/ DropSelector
    \/ \E k \in 0..2 : TakeWord(k)
    \/ DecodeUint
    \/ DecodeAddress
    \/ DecodeString

Spec == Init /\ [][Next]_vars

-----------------------------------------------------------------------------
(* main: thirteen calls, each encoded, sent by query and decoded.          *)

\* The calls of main in order: signature, params, contract and decoder.
Calls ==
    << [sig |-> SigName, params |-> <<>>, to |-> "CONTRACT_ADDRESS",
        decoder |-> "decode_string"],
       [sig |-> SigSymbol, params |-> <<>>, to |-> "CONTRACT_ADDRESS",
        decoder |-> "decode_string"],
       [sig |-> SigDecimals, params |-> <<>>, to |-> "CONTRACT_ADDRESS",
        decoder |-> "decode_uint"],
       [sig |-> SigTotalSupply, params |-> <<>>, to |-> "CONTRACT_ADDRESS",
        decoder |-> "decode_uint"],
       [sig |-> SigBalanceOf,
        params |-> <<pad_left_zero(trim_start_matches(CONTRACT_ADDRESS, Prefix0x), 64)>>,
        to |-> "CONTRACT_ADDRESS", decoder |-> "decode_uint"],
       [sig |-> SigName, params |-> <<>>, to |-> "NFT_ADDRESS",
        decoder |-> "decode_string"],
       [sig |-> SigSymbol, params |-> <<>>, to |-> "NFT_ADDRESS",
        decoder |-> "decode_string"],
       [sig |-> SigTotalSupply, params |-> <<>>, to |-> "NFT_ADDRESS",
        decoder |-> "decode_uint"],
       [sig |-> SigOwnerOf, params |-> <<token_id>>, to |-> "NFT_ADDRESS",
        decoder |-> "decode_address"],
       [sig |-> SigBalanceOf,
        params |-> <<pad_left_zero(trim_start_matches(NFT_ADDRESS, Prefix0x), 64)>>,
        to |-> "NFT_ADDRESS", decoder |-> "decode_uint"],
       [sig |-> SigTokenURI, params |-> <<token_id>>, to |-> "NFT_ADDRESS",
        decoder |-> "decode_string"],
       [sig |-> SigGetStudentCount, params |-> <<Mathematics>>,
        to |-> "SUBJECT_CONTRACT", decoder |-> "decode_uint"],
       [sig |-> SigGetStudentsBySubject,
        params |-> <<Mathematics, to_string(<<>>), to_string(<<10>>)>>,
        to |-> "SUBJECT_CONTRACT", decoder |-> "decode_students_response"] >>

\* HTTP status codes the endpoint may answer with.
Statuses == {200, 400, 429, 500}

\* The "result" strings a JSON body may carry: no data, a uint256 word, an
\* address word, and the ABI encoding of the string "M".
ResultStrings ==
    { Prefix0x,
      Prefix0x \o Word(Str(<<"1", "2">>)),
      Prefix0x \o Zeros(24) \o Repeat(Str(<<"1", "c">>), 20),
      Prefix0x \o Word(Str(<<"2", "0">>)) \o Word(Str(<<"1">>))
          \o hex_encode(Str(<<"M">>)) \o Zeros(62) }

\* What the HTTP exchange of query can come to: send() fails; or a response
\* arrives with some status, whose body is no JSON, JSON without a string
\* "result", or JSON with one.
Outcomes ==
    { [kind |-> "send_error", status |-> 0, json |-> FALSE, has_result |-> FALSE,
       result |-> <<>>] }
    \cup { [kind |-> "response", status |-> s, json |-> FALSE, has_result |-> FALSE,
            result |-> <<>>] : s \in Statuses }
    \cup { [kind |-> "response", status |-> s, json |-> TRUE, has_result |-> FALSE,
            result |-> <<>>] : s \in Statuses }
    \cup { [kind |-> "response", status |-> s, json |-> TRUE, has_result |-> TRUE,
            result |-> r] : s \in Statuses, r \in ResultStrings }

\* query's return value: Err when send() or response.json() fails, else Ok.
query_is_ok(outcome) == outcome.kind = "response" /\ outcome.json

\* response["result"].as_str().unwrap_or_default()
result_str(outcome) == IF outcome.has_result THEN outcome.result ELSE <<>>

\* The decoder main applies to the response of a call.
apply_decoder(name, h) ==
    CASE name = "decode_uint" -> Ok(decode_uint(h))
      [] name = "decode_address" -> decode_address(h)
      [] name = "decode_string" -> decode_string(h)

MainInit ==
    /\ overflow_checks \in BOOLEAN
    /\ pc = "main_encode"
    /\ scenario = [kind |-> "main", word |-> 1]
    /\ method_signature = <<>>
    /\ params = <<>>
    /\ data = NoValue
    /\ response = NoResponse
    /\ hex_str = <<>>
    /\ decoded = NotDecoded

\* let .._data = encode_function_call(..).into_bytes();
MainEncode ==
    /\ pc = "main_encode"
    /\ method_signature' = Calls[scenario.word].sig
    /\ params' = Calls[scenario.word].params
    /\ data' = encode_function_call(method_signature', params')
    /\ pc' = IF data'.panic THEN "panicked" ELSE "main_query"
    /\ UNCHANGED <<overflow_checks, scenario, response, hex_str, decoded>>

\* let .._response = query(&client, RPC_URL, .., &.._data).await?;
Query ==
    /\ pc = "main_query"
    /\ \E outcome \in Outcomes :
          /\ response' = outcome
          /\ pc' = IF query_is_ok(outcome) THEN "main_decode" ELSE "main_err"
    /\ UNCHANGED <<overflow_checks, scenario, method_signature, params, data, hex_str,
                   decoded>>

\* let name = decode_string(name_response["result"].as_str().unwrap_or_default());
MainDecode ==
    /\ pc = "main_decode"
    /\ Calls[scenario.word].decoder # "decode_students_response"
    /\ hex_str' = result_str(response)
    /\ LET r == apply_decoder(Calls[scenario.word].decoder, hex_str')
       IN  /\ decoded' = [fn |-> Calls[scenario.word].decoder, panic |-> r.panic,
                          val |-> r.val]
           /\ pc' = IF r.panic THEN "panicked" ELSE "main_encode"
    /\ scenario' = [scenario EXCEPT !.word = @ + 1]
    /\ UNCHANGED <<overflow_checks, method_signature, params, data, response>>

\* decode_students_response(students_response["result"]..): the "0x" is cut
\* once, hex::decode fails on malformed hex, and ethabi::decode (an external
\* crate) accepts or rejects the bytes.
DecodeStudentsResponse ==
    /\ pc = "main_decode"
    /\ Calls[scenario.word].decoder = "decode_students_response"
    /\ hex_str' = result_str(response)
    /\ LET response_data == IF starts_with(hex_str', Prefix0x)
                            THEN SubSeq(hex_str', 3, Len(hex_str'))
                            ELSE hex_str'
       IN  \E abi \in {"Ok", "Err"} :
              decoded' = [fn |-> "decode_students_response", panic |-> FALSE,
                          val |-> IF hex_decode(response_data).ok
                                  THEN abi ELSE "Err"]
    /\ pc' = "main_done"
    /\ UNCHANGED <<overflow_checks, scenario, method_signature, params, data, response>>

MainNext ==
    \/ MainEncode
    \/ Query
    \/ MainDecode
    \/ DecodeStudentsResponse

SpecMain == MainInit /\ [][MainNext]_vars

-----------------------------------------------------------------------------
(* Properties.  The expected values are written out here on their own,     *)
(* from the ABI layout, not with the operators of the encoder.             *)

HexCodes == (48..57) \cup (97..102) \cup (65..70)
IsHex(s) == \A i \in 1..Len(s) : s[i] \in HexCodes

\* s without one leading "0x", when it has one.
WithoutPrefix(s) ==
    IF Len(s) >= 2 /\ s[1] = 48 /\ s[2] = 120 THEN SubSeq(s, 3, Len(s)) ELSE s

RECURSIVE HexOfBytes(_)
\* Two lowercase hex characters per byte.
HexOfBytes(b) ==
    IF b = <<>> THEN <<>>
    ELSE <<HexChars[(Head(b) \div 16) + 1], HexChars[(Head(b) % 16) + 1]>>
         \o HexOfBytes(Tail(b))

RECURSIVE HexOfNat(_)
HexOfNat(n) ==
    IF n < 16 THEN <<HexChars[n + 1]>>
    ELSE HexOfNat(n \div 16) \o <<HexChars[(n % 16) + 1]>>

\* s followed by the fewest zeros that bring it to a multiple of 64 characters.
ToWordBoundary(s) == s \o Zeros(CHOOSE k \in 0..63 : (Len(s) + k) % 64 = 0)

\* An ASCII argument left-zero-padded to 64 characters.
LeftPadded(s) == IF Len(s) >= 64 THEN s ELSE Zeros(64 - Len(s)) \o s

RECURSIVE StaticBlocks(_)
StaticBlocks(ps) ==
    IF ps = <<>> THEN <<>>
    ELSE (IF Len(Head(ps)) >= 2 /\ Head(ps)[1] = 48 /\ Head(ps)[2] = 120
          THEN SubSeq(Head(ps), 3, Len(Head(ps)))
          ELSE LeftPadded(Head(ps))) \o StaticBlocks(Tail(ps))

\* "0x" and the 8 lowercase hex characters of the first 4 bytes of Keccak-256.
ExpectedHead(sig) == Prefix0x \o HexOfBytes(SubSeq(keccak(sig), 1, 4))

\* encode_function_call has returned a payload.
Encoded == scenario.kind # "raw" /\ pc # "encode" /\ ~data.panic

\* The value of a string of hex digits as a number of any size.
ValueOfHex(s) == Canon(Reverse([i \in 1..Len(s) |-> to_digit(s[i])]))

\* C1: a string encoded as the single argument of getStudentCount(string),
\* the selector dropped, is decoded by decode_string to the same string,
\* without any of the padding.
C1_StringRoundTrip ==
    (Encoded /\ scenario.kind = "block" /\ method_signature = SigGetStudentCount
        /\ decoded.fn = "decode_string")
    => (~decoded.panic /\ decoded.val = params[1])

\* C1 witness: a string of several words, with multi-byte chars, has made the trip.
C1_Witness ==
    /\ Encoded /\ scenario.kind = "block" /\ method_signature = SigGetStudentCount
    /\ pc = "done" /\ decoded.fn = "decode_string"
    /\ Len(params[1]) > 64 /\ params[1][1] = 195
    /\ decoded.val = params[1]

\* C2: a u64 n written with to_string as a static argument (or as the offset
\* or limit scalar), padded to a word by the encoder, is decoded by
\* decode_uint to n.
C2_UintRoundTrip ==
    \A n \in U64Samples :
        (/\ Encoded /\ scenario.kind = "word" /\ decoded.fn = "decode_uint"
         /\ \/ /\ method_signature = SigOwnerOf /\ Len(params) = 1
               /\ scenario.word = 0 /\ params[1] = to_string(n)
            \/ /\ method_signature = SigGetStudentsBySubject /\ Len(params) = 3
               /\ scenario.word = 2 /\ params[3] = to_string(n))
        => decoded.val = n

\* C3: decode_string returns "Invalid data" exactly when the input without
\* its optional "0x" has fewer than 128 characters.
C3_SentinelExactlyWhenShort ==
    (decoded.fn = "decode_string" /\ IsHex(WithoutPrefix(hex_str)))
    => ((~decoded.panic /\ decoded.val = InvalidData)
        <=> Len(WithoutPrefix(hex_str)) < 128)

\* C4: decode_string never panics.
C4_DecodeStringTotal == decoded.fn = "decode_string" => ~decoded.panic

\* C5: on an optional "0x" and at least 64 hex characters, decode_address
\* returns "0x" and characters [24,64) of the first word, whatever the
\* characters before and after them.
C5_AddressLow20Bytes ==
    (decoded.fn = "decode_address" /\ IsHex(WithoutPrefix(hex_str))
        /\ Len(WithoutPrefix(hex_str)) >= 64)
    => (/\ ~decoded.panic
        /\ decoded.val = Prefix0x \o SubSeq(WithoutPrefix(hex_str), 25, 64)
        /\ Len(decoded.val) = 42)

\* C5 witness: a prefixed address word with nonzero high characters and a tail.
C5_Witness ==
    /\ pc = "done" /\ decoded.fn = "decode_address" /\ scenario.kind = "raw"
    /\ Len(hex_str) > 66 /\ hex_str[2] = 120 /\ hex_str[3] = 102
    /\ decoded.val = Prefix0x \o Repeat(Str(<<"1", "D">>), 20)

\* C6: the payload is "0x", 8 selector characters and whole 64-character
\* words, one per static argument.
C6_WholeWords ==
    Encoded
    => (/\ (Len(data.val) - 10) % 64 = 0
        /\ method_signature \in StaticSignatures
              => Len(data.val) = 10 + 64 * Len(params))

\* C7: the payload of (string,uint256,uint256) with scalars of at most 64
\* characters is head word 0x60, offset word, limit word, length word, and
\* the subject's bytes in hex padded to a word boundary; the head word's
\* value, as a byte offset into the argument block, is where the length
\* word stands.
C7_ThreeArgLayout ==
    (Encoded /\ method_signature = SigGetStudentsBySubject
        /\ Len(params[2]) <= 64 /\ Len(params[3]) <= 64)
    => (/\ data.val = ExpectedHead(method_signature)
                      \o Word(Str(<<"6", "0">>))
                      \o Word(params[2]) \o Word(params[3])
                      \o Word(HexOfNat(Len(params[1])))
                      \o ToWordBoundary(HexOfBytes(params[1]))
        /\ LET block == SubSeq(data.val, 11, Len(data.val))
               at    == ToInt(ValueOfHex(SubSeq(block, 1, 64)))
           IN  /\ at = 96
               /\ SubSeq(block, 2 * at + 1, 2 * at + 64)
                     = Word(HexOfNat(Len(params[1]))))

\* C7 witness: main's call, and a subject of exactly one word of bytes.
C7_Witness ==
    /\ Encoded /\ method_signature = SigGetStudentsBySubject
    /\ params[2] = Str(<<"0">>) /\ params[3] = Str(<<"1", "0">>)
    /\ Len(params[1]) = 32
    /\ Len(data.val) = 10 + 5 * 64

\* C8: for a signature without "string" the payload is "0x", the selector,
\* and one block per argument in order: the argument without its "0x", or
\* the argument left-zero-padded to 64 characters; without arguments it is
\* the 10 characters of "0x" and the selector.
C8_StaticDispatch ==
    (Encoded /\ method_signature \notin {SigGetStudentCount, SigGetStudentsBySubject})
    => (/\ data.val = ExpectedHead(method_signature) \o StaticBlocks(params)
        /\ params = <<>> => Len(data.val) = 10)

\* C8 witness: two arguments, the first with a "0x", the second padded.
C8_Witness ==
    /\ Encoded /\ method_signature = SigTransfer /\ Len(params) = 2
    /\ params[1] = Prefix0x \o token_id /\ params[2] = Str(<<"1", "0">>)
    /\ data.val = Prefix0x \o Str(<<"a", "9", "0", "5", "9", "c", "b", "b">>)
                  \o token_id \o Zeros(62) \o Str(<<"1", "0">>)

\* C9: query returns Ok only for a 2xx response, so main decodes the result
\* field of 2xx responses only.
C9_OkOnlyFor2xx ==
    pc = "main_decode" => (response.kind = "response" /\ response.status \in 200..299)

\* C10: on an optional "0x" and a 64-digit word decode_uint returns the
\* word's value; it returns 0 for the all-zero word only.
C10_UintWordValue ==
    (decoded.fn = "decode_uint" /\ IsHex(WithoutPrefix(hex_str))
        /\ Len(WithoutPrefix(hex_str)) = 64)
    => (/\ decoded.val = ValueOfHex(WithoutPrefix(hex_str))
        /\ decoded.val = <<>> => WithoutPrefix(hex_str) = Zeros(64))

=============================================================================
